---- MODULE Spec2Model ----
(***************************************************************************)
(* osmo-prepare: copy action-camera video chunks into a staging directory, *)
(* group them by filename prefix, join each group with ffmpeg and delete   *)
(* the joined chunks (src/src/osmo_prepare/main.py), and the osmo-join     *)
(* command that joins explicitly named files (src/src/osmo_prepare/join.py)*)
(*                                                                         *)
(* Text (filenames, lines of filelist.txt, ffmpeg's stderr lines, error    *)
(* messages) is a sequence of one-character strings, so that slicing,      *)
(* pattern matching, ordering and concatenation are computed as Python     *)
(* computes them.                                                          *)
(***************************************************************************)
EXTENDS Integers, Sequences, FiniteSets, TLC

VARIABLES
    cmd,                \* entry point that is running: "primary" (main.py) or "join" (join.py)
    pc,                 \* position in that entry point's main()
    argv,               \* sys.argv[1:] of the join command (<<>> for the primary command)
    cwdFiles,           \* the paths that exist as files, as seen by the join command
    srcExists,          \* the source media directory exists
    srcListable,        \* os.listdir of the source media directory succeeds
    srcFiles,           \* names of the entries of the source media directory
    stagingExists,      \* ./processed exists
    staging,            \* ./processed: name -> [kind, size] for every file in it but filelist.txt
    filelist,           \* ./processed/filelist.txt: [exists, lines]
    toolInstalled,      \* an ffmpeg binary is on the PATH
    video_filenames,    \* main(): video_filenames
    grouped_filenames,  \* main(): grouped_filenames (dict: group name -> sorted members)
    sorted_groups,      \* main(): sorted(group_info_list, key=group_name), the loop's sequence
    skipped_count,      \* main(): skipped_count
    idx,                \* main(): idx of the loop over the groups
    groups_processed,   \* main(): groups_processed
    total_output_size,  \* main(): total_output_size
    errors,             \* main(): errors, a list of (kind, message, detail)
    input_list,         \* the filenames argument of the running create_input_parameter_file
    output_filename,    \* join_videofile(): output_filename
    proc,               \* the ffmpeg child process: [state, script, pipe, rc]
    stderr_lines,       \* join_videofile(): stderr_lines
    last_output_size,   \* join_videofile(): last_output_size
    result,             \* what join_videofile returned: [success, error_msg, output_size]
    attempts,           \* log of the join_videofile calls: what the tool did and what was returned
    outcome,            \* how main() ended ("" while it runs)
    exit_status         \* the process's exit status (-1 while it runs)

envVars  == <<argv, cwdFiles, srcExists, srcListable, srcFiles, toolInstalled>>
dirVars  == <<stagingExists, staging, filelist>>
grpVars  == <<video_filenames, grouped_filenames, sorted_groups, skipped_count>>
statVars == <<idx, groups_processed, total_output_size, errors>>
joinVars == <<input_list, output_filename, proc, stderr_lines, last_output_size, result, attempts>>
endVars  == <<outcome, exit_status>>
vars == <<cmd, pc, envVars, dirVars, grpVars, statVars, joinVars, endVars>>

(***************************************************************************)
(* Bounds of the model.                                                    *)
(***************************************************************************)
\* longest filename list handed to the Grouper alone (SpecGrouper)
MaxFiles == 3
\* most entries of the source directory in a run of the primary command
MaxRunFiles == 3
\* most input-file arguments of the join command
MaxArgs == 2
\* most lines ffmpeg writes to stderr in one invocation of the join command
MaxLines == 2

(***************************************************************************)
(* Characters and text.                                                    *)
(***************************************************************************)
\* The characters the model uses, in ascending code-point order (Python
\* compares str by code point).
CodeOrder ==
    <<"\n", " ", "'", ".",
      "0", "1", "2", "3", "4", "5", "6", "7", "8", "9", ":", "=",
      "A", "B", "C", "D", "E", "F", "G", "H", "I", "J", "K", "L", "M",
      "N", "O", "P", "Q", "R", "S", "T", "U", "V", "W", "X", "Y", "Z", "_",
      "a", "b", "c", "d", "e", "f", "g", "h", "i", "j", "k", "l", "m",
      "n", "o", "p", "q", "r", "s", "t", "u", "v", "w", "x", "y", "z">>

Ord(c) == CHOOSE i \in 1..Len(CodeOrder) : CodeOrder[i] = c

Digits == <<"0", "1", "2", "3", "4", "5", "6", "7", "8", "9">>

IsDigit(c) == \E i \in 1..Len(Digits) : Digits[i] = c

\* int() of one decimal digit
DigitVal(c) == (CHOOSE i \in 1..Len(Digits) : Digits[i] = c) - 1

\* int() of a non-empty run of decimal digits
RECURSIVE IntOf(_)
IntOf(ds) ==
    IF Len(ds) = 0 THEN 0
    ELSE 10 * IntOf(SubSeq(ds, 1, Len(ds) - 1)) + DigitVal(ds[Len(ds)])

\* str.upper() on one character
UpperChar(c) ==
    IF Ord(c) >= Ord("a") /\ Ord(c) <= Ord("z")
    THEN CodeOrder[Ord("A") + (Ord(c) - Ord("a"))]
    ELSE c

\* str.upper()
Upper(s) == [i \in 1..Len(s) |-> UpperChar(s[i])]

\* s.endswith(t)
EndsWith(s, t) ==
    /\ Len(s) >= Len(t)
    /\ SubSeq(s, Len(s) - Len(t) + 1, Len(s)) = t

\* s[:n]
Prefix(s, n) == IF Len(s) <= n THEN s ELSE SubSeq(s, 1, n)

\* a < b on str: the first differing character decides, a proper prefix is smaller
RECURSIVE StrLess(_, _)
StrLess(a, b) ==
    IF Len(b) = 0 THEN FALSE
    ELSE IF Len(a) = 0 THEN TRUE
    ELSE IF a[1] = b[1] THEN StrLess(Tail(a), Tail(b))
    ELSE Ord(a[1]) < Ord(b[1])

\* "".join(lines)
RECURSIVE JoinText(_)
JoinText(lines) ==
    IF Len(lines) = 0 THEN <<>> ELSE Head(lines) \o JoinText(Tail(lines))

\* the elements of a sequence
Range(s) == {s[i] : i \in 1..Len(s)}

\* the sequences of at most n elements of S, without and with repetition
RECURSIVE DistinctSeqs(_, _)
DistinctSeqs(S, n) ==
    IF n = 0 THEN {<<>>}
    ELSE LET shorter == DistinctSeqs(S, n - 1)
         IN  shorter \cup UNION {{Append(s, x) : x \in S \ Range(s)} : s \in shorter}

RECURSIVE SeqsUpTo(_, _)
SeqsUpTo(S, n) ==
    IF n = 0 THEN {<<>>}
    ELSE LET shorter == SeqsUpTo(S, n - 1)
         IN  shorter \cup {Append(s, x) : s \in shorter, x \in S}

\* every order in which the elements of the set S can be listed
Listings(S) == {s \in DistinctSeqs(S, Cardinality(S)) : Len(s) = Cardinality(S)}

\* s reversed
Reverse(s) == [i \in 1..Len(s) |-> s[Len(s) + 1 - i]]

(***************************************************************************)
(* Filenames.                                                              *)
(***************************************************************************)
DJI == <<"D", "J", "I", "_">>
MP4 == <<".", "M", "P", "4">>

\* an unchunked recording: DJI_ + four digits + .MP4
NameUnchunked1 == DJI \o <<"0", "0", "0", "1">> \o MP4
NameUnchunked2 == DJI \o <<"0", "8", "0", "1">> \o MP4
\* two chunks of the recording DJI_0801 and one chunk of DJI_0802
NameChunkA1 == DJI \o <<"0", "8", "0", "1", "1">> \o MP4
NameChunkA2 == DJI \o <<"0", "8", "0", "1", "2">> \o MP4
NameChunkB1 == DJI \o <<"0", "8", "0", "2", "1">> \o MP4
\* the unchunked name in lower case
NameLower == <<"d", "j", "i", "_", "0", "0", "0", "1", ".", "m", "p", "4">>
\* an 8-character prefix that is no unchunked name, on a 12-character filename
NameLetter == DJI \o <<"0", "8", "0", "A">> \o MP4
\* a name shorter than 8 characters, and that name with a second extension
NameShort == <<"A">> \o MP4
NameShortTwice == <<"A">> \o MP4 \o MP4
\* a directory entry that is no video
NameNotes == <<"n", "o", "t", "e", "s", ".", "t", "x", "t">>

\* the filenames that can be presented to the Grouper (they end in .MP4, any case)
VideoNames ==
    {NameUnchunked1, NameUnchunked2, NameChunkA1, NameChunkA2, NameChunkB1,
     NameLower, NameLetter, NameShort, NameShortTwice}

\* the entries the source directory of a run can hold
EntryNames ==
    {NameUnchunked1, NameChunkA1, NameChunkA2, NameChunkB1,
     NameLetter, NameShort, NameShortTwice, NameNotes}

(***************************************************************************)
(* is_video_file, list_filenames: the listing keeps the names that end in  *)
(* .MP4 whatever their case (every entry of the model is a regular file).  *)
(***************************************************************************)
is_video_file(filename) == EndsWith(Upper(filename), MP4)

(***************************************************************************)
(* group_related_videos                                                    *)
(***************************************************************************)
\* the pattern without its end: r"^DJI_\d{4}"
MatchesUnchunkedPrefix(filename) ==
    /\ Len(filename) >= 8
    /\ SubSeq(filename, 1, 4) = DJI
    /\ \A i \in 5..8 : IsDigit(filename[i])

\* re.match(r"^DJI_\d{4}\.MP4$", filename): "$" also matches before one final newline
MatchesUnchunked(filename) ==
    /\ \/ Len(filename) = 12
       \/ Len(filename) = 13 /\ filename[13] = "\n"
    /\ SubSeq(filename, 1, 4) = DJI
    /\ \A i \in 5..8 : IsDigit(filename[i])
    /\ SubSeq(filename, 9, 12) = MP4

\* filename[:8]
GroupNameOf(filename) == Prefix(filename, 8)

\* list.sort(): insertion of x into an ascending list, after the elements not above it
RECURSIVE InsertSorted(_, _)
InsertSorted(x, s) ==
    IF Len(s) = 0 THEN <<x>>
    ELSE IF StrLess(x, Head(s)) THEN <<x>> \o s
    ELSE <<Head(s)>> \o InsertSorted(x, Tail(s))

\* the lists left in the order of the listing
SortNamesNot(s) == s

RECURSIVE SortNames(_)
SortNames(s) ==
    IF Len(s) = 0 THEN <<>>
    ELSE InsertSorted(s[Len(s)], SortNames(SubSeq(s, 1, Len(s) - 1)))

\* grouped[group_name] = [filename] in place of the append
AppendToGroupReplacing(items, group_name, filename) ==
    IF \E i \in 1..Len(items) : items[i].key = group_name
    THEN [i \in 1..Len(items) |->
            IF items[i].key = group_name
            THEN [key |-> group_name, members |-> <<filename>>]
            ELSE items[i]]
    ELSE Append(items, [key |-> group_name, members |-> <<filename>>])

\* grouped[group_name].append(filename), on a dict kept as its (key, list) items
\* in insertion order
AppendToGroup(items, group_name, filename) ==
    IF \E i \in 1..Len(items) : items[i].key = group_name
    THEN [i \in 1..Len(items) |->
            IF items[i].key = group_name
            THEN [key |-> group_name, members |-> Append(items[i].members, filename)]
            ELSE items[i]]
    ELSE Append(items, [key |-> group_name, members |-> <<filename>>])

\* the loop over video_filenames: [items, skipped] after the first n filenames
RECURSIVE GroupLoop(_, _)
GroupLoop(filenames, n) ==
    IF n = 0 THEN [items |-> <<>>, skipped |-> 0]
    ELSE LET before   == GroupLoop(filenames, n - 1)
             filename == filenames[n]
         IN  IF MatchesUnchunked(filename)
             THEN [before EXCEPT !.skipped = @ + 1]
             ELSE [before EXCEPT
                     !.items = AppendToGroup(@, GroupNameOf(filename), filename)]

\* what group_related_videos returns: the dict's items with every list sorted,
\* the GroupInfo of every group in the dict's order (its total_size, which only
\* feeds the displayed statistics, is left out), and the skipped count
group_related_videos(filenames) ==
    LET looped == GroupLoop(filenames, Len(filenames))
        items  == [i \in 1..Len(looped.items) |->
                     [key |-> looped.items[i].key,
                      members |-> SortNames(looped.items[i].members)]]
    IN  [grouped |-> items,
         group_info_list |-> [i \in 1..Len(items) |->
                                [group_name |-> items[i].key,
                                 chunk_count |-> Len(items[i].members)]],
         skipped_count |-> looped.skipped]

\* the dict as a mapping: group name -> members
DictOf(items) ==
    [k \in {items[i].key : i \in 1..Len(items)} |->
        items[CHOOSE i \in 1..Len(items) : items[i].key = k].members]

\* sorted(group_info_list, key=lambda x: x.group_name)
RECURSIVE InsertInfo(_, _)
InsertInfo(x, s) ==
    IF Len(s) = 0 THEN <<x>>
    ELSE IF StrLess(x.group_name, Head(s).group_name) THEN <<x>> \o s
    ELSE <<Head(s)>> \o InsertInfo(x, Tail(s))

RECURSIVE SortedByName(_)
SortedByName(s) ==
    IF Len(s) = 0 THEN <<>>
    ELSE InsertInfo(s[Len(s)], SortedByName(SubSeq(s, 1, Len(s) - 1)))

(***************************************************************************)
(* create_input_parameter_file                                             *)
(***************************************************************************)
\* "file '{fname}'\n".format(fname=filename)
FormatLine(filename) == <<"f", "i", "l", "e", " ", "'">> \o filename \o <<"'", "\n">>

\* the file opened with "a": the written lines follow what the file held
WriteFileAppending(old, lines) == [exists |-> TRUE, lines |-> old.lines \o lines]

\* open(..., "w") and the writes: the file holds the written lines and nothing else
WriteFile(old, lines) == [exists |-> TRUE, lines |-> lines]

\* the list written only when there is none yet: a list that is there is kept
CreateListOnce(old, filenames) ==
    IF old.exists
    THEN old
    ELSE WriteFile(old, [i \in 1..Len(filenames) |-> FormatLine(filenames[i])])

create_input_parameter_file(old, filenames) ==
    WriteFile(old, [i \in 1..Len(filenames) |-> FormatLine(filenames[i])])

(***************************************************************************)
(* parse_ffmpeg_progress                                                   *)
(***************************************************************************)
TimeToken == <<"t", "i", "m", "e", "=">>
SizeToken == <<"s", "i", "z", "e", "=">>

\* r"time=(\d{2}):(\d{2}):(\d{2}\.\d{2})" matches at position p
TimeMatchAt(line, p) ==
    /\ p + 15 <= Len(line)
    /\ SubSeq(line, p, p + 4) = TimeToken
    /\ \A i \in {5, 6, 8, 9, 11, 12, 14, 15} : IsDigit(line[p + i])
    /\ line[p + 7] = ":" /\ line[p + 10] = ":" /\ line[p + 13] = "."

\* the end of the run of digits that starts at position p (p - 1 when there is none)
RECURSIVE DigitsEnd(_, _)
DigitsEnd(line, p) ==
    IF p <= Len(line) /\ IsDigit(line[p]) THEN DigitsEnd(line, p + 1) ELSE p - 1

\* r"size=(\d+)kB" matches at position p
SizeMatchAt(line, p) ==
    /\ p + 4 <= Len(line)
    /\ SubSeq(line, p, p + 4) = SizeToken
    /\ LET e == DigitsEnd(line, p + 5)
       IN  /\ e >= p + 5
           /\ e + 2 <= Len(line)
           /\ line[e + 1] = "k" /\ line[e + 2] = "B"

\* re.search: the leftmost position where the pattern matches, 0 when nowhere
FirstTimeMatch(line) ==
    IF \E p \in 1..Len(line) : TimeMatchAt(line, p)
    THEN CHOOSE p \in 1..Len(line) :
            TimeMatchAt(line, p) /\ \A q \in 1..(p - 1) : ~TimeMatchAt(line, q)
    ELSE 0

FirstSizeMatch(line) ==
    IF \E p \in 1..Len(line) : SizeMatchAt(line, p)
    THEN CHOOSE p \in 1..Len(line) :
            SizeMatchAt(line, p) /\ \A q \in 1..(p - 1) : ~SizeMatchAt(line, q)
    ELSE 0

\* the result is None (none = TRUE) or (0.0, current_seconds, output_bytes)
NoProgress == [none |-> TRUE, current_seconds |-> 0, output_bytes |-> 0]

parse_ffmpeg_progress(stderr_line) ==
    IF Len(stderr_line) = 0 THEN NoProgress
    ELSE LET t == FirstTimeMatch(stderr_line)
             s == FirstSizeMatch(stderr_line)
         IN  IF t = 0 THEN NoProgress
             ELSE [none |-> FALSE,
                   current_seconds |->
                       IntOf(SubSeq(stderr_line, t + 5, t + 6)) * 3600
                       + IntOf(SubSeq(stderr_line, t + 8, t + 9)) * 60
                       + IntOf(SubSeq(stderr_line, t + 11, t + 12)),
                   output_bytes |->
                       IF s = 0 THEN 0
                       ELSE IntOf(SubSeq(stderr_line, s + 5,
                                         DigitsEnd(stderr_line, s + 5))) * 1024]

(***************************************************************************)
(* What ffmpeg writes to stderr, and the errors an invocation can raise.   *)
(***************************************************************************)
LineBoth ==
    SizeToken \o <<"2", "k", "B", " ">> \o TimeToken
        \o <<"0", "0", ":", "0", "1", ":", "0", "5", ".", "5", "0", "\n">>
LineSize == SizeToken \o <<"3", "k", "B", "\n">>
LineTime ==
    TimeToken \o <<"0", "0", ":", "0", "0", ":", "0", "2", ".", "0", "0", "\n">>
LineError == <<"E", "r", "r", "o", "r", "\n">>

StderrLines == {LineBoth, LineSize, LineTime, LineError}

\* what one invocation writes: any lines in the join command, one of three
\* outputs in a run of the primary command
JoinScripts == SeqsUpTo(StderrLines, MaxLines)
RunScripts == {<<LineError>>, <<LineBoth, LineSize>>}

\* the sizes the finished output file can have on disk, and the size of one
\* that is not finished
JoinDiskSizes == {1024, 4096}
RunDiskSizes == {4096}
PartialSizes == {512}

\* "FFmpeg not found. Please install FFmpeg."
NotFoundText ==
    <<"F", "F", "m", "p", "e", "g", " ", "n", "o", "t", " ", "f", "o", "u", "n", "d", ".",
      " ", "P", "l", "e", "a", "s", "e", " ", "i", "n", "s", "t", "a", "l", "l", " ",
      "F", "F", "m", "p", "e", "g", ".">>

\* an exception other than FileNotFoundError and its str()
PermissionError ==
    [type |-> "PermissionError",
     text |-> <<"P", "e", "r", "m", "i", "s", "s", "i", "o", "n", " ",
                "d", "e", "n", "i", "e", "d">>]
UnicodeDecodeError ==
    [type |-> "UnicodeDecodeError",
     text |-> <<"i", "n", "v", "a", "l", "i", "d", " ", "b", "y", "t", "e">>]

str(e) == e.text

\* os.path.join(processed_dir, output_filename + ".MP4"), as a name in ./processed
OutputName(name) == name \o MP4

\* get_file_size(path) for a path in ./processed: 0 when the file is not there
get_file_size(dir, name) == IF name \in DOMAIN dir THEN dir[name].size ELSE 0

\* the directory with the file written or overwritten
WithFile(dir, name, file) ==
    [n \in DOMAIN dir \cup {name} |-> IF n = name THEN file ELSE dir[n]]

\* the directory without the named files
WithoutFiles(dir, names) == [n \in DOMAIN dir \ names |-> dir[n]]

EmptyDir == [n \in {} |-> [kind |-> "chunk", size |-> 0]]
NoFile == [exists |-> FALSE, lines |-> <<>>]
NoProcess == [state |-> "none", script |-> <<>>, pipe |-> <<>>, rc |-> -1]
NoResult == [success |-> FALSE, error_msg |-> <<>>, output_size |-> 0]

(***************************************************************************)
(* The end of a command: main() returns or raises, or sys.exit is called.  *)
(***************************************************************************)
Finish(how, status) ==
    /\ pc' = "done"
    /\ outcome' = how
    /\ exit_status' = status

\* exit status of the primary command when main() returns: the module ends
\* after the call (main.py, "if __name__ == '__main__': main()")
ReturnStatus == 0
\* exit status when an exception leaves main(), and of sys.exit(1)
ErrorStatus == 1

(***************************************************************************)
(* join_videofile, shared by the two commands.                             *)
(***************************************************************************)
\* one entry of the log of calls: the group, what happened to the tool
\* ("missing", the type of another exception, or "ran"), what it wrote to stderr
\* and its exit status when it ran to its end, and what join_videofile returned
Attempt(how, script, rc, res) ==
    [group |-> output_filename, tool |-> how, script |-> script, rc |-> rc,
     result |-> res]

\* FileNotFoundError handled by "except Exception" alone: the text of the exception
ToolMissingResultGeneric ==
    [success |-> FALSE,
     error_msg |-> <<"N", "o", " ", "s", "u", "c", "h", " ", "f", "i", "l", "e">>,
     output_size |-> 0]

\* "except FileNotFoundError": the result for an ffmpeg that is not installed
ToolMissingResult == [success |-> FALSE, error_msg |-> NotFoundText, output_size |-> 0]

\* "except Exception as e": the result for any other exception
ErrorResult(e) == [success |-> FALSE, error_msg |-> str(e), output_size |-> 0]

\* subprocess.Popen raises FileNotFoundError: no ffmpeg to run
JoinToolMissing ==
    /\ pc = "popen"
    /\ ~toolInstalled
    /\ result' = ToolMissingResult
    /\ attempts' = Append(attempts, Attempt("missing", <<>>, -1, result'))
    /\ pc' = "joined"
    /\ UNCHANGED <<cmd, envVars, dirVars, grpVars, statVars, endVars,
                   input_list, output_filename, proc, stderr_lines, last_output_size>>

\* subprocess.Popen raises another exception (an ffmpeg that is found but cannot
\* be started)
JoinPopenError ==
    /\ pc = "popen"
    /\ toolInstalled
    /\ result' = ErrorResult(PermissionError)
    /\ attempts' = Append(attempts, Attempt(PermissionError.type, <<>>, -1, result'))
    /\ pc' = "joined"
    /\ UNCHANGED <<cmd, envVars, dirVars, grpVars, statVars, endVars,
                   input_list, output_filename, proc, stderr_lines, last_output_size>>

\* subprocess.Popen starts ffmpeg, which will write the lines of one script
JoinPopen(scripts) ==
    /\ pc = "popen"
    /\ toolInstalled
    /\ \E script \in scripts :
          proc' = [state |-> "running", script |-> script, pipe |-> script, rc |-> -1]
    /\ stderr_lines' = <<>>
    /\ last_output_size' = 0
    /\ pc' = "reading"
    /\ UNCHANGED <<cmd, envVars, dirVars, grpVars, statVars, endVars,
                   input_list, output_filename, result, attempts>>

\* ffmpeg -y creates or overwrites the output file while it runs
ToolWrites ==
    /\ proc.state = "running"
    /\ pc = "reading"
    /\ IF OutputName(output_filename) \in DOMAIN staging
       THEN staging[OutputName(output_filename)].kind # "partial"
       ELSE TRUE
    /\ \E size \in PartialSizes :
          staging' = WithFile(staging, OutputName(output_filename),
                              [kind |-> "partial", size |-> size])
    /\ UNCHANGED <<cmd, pc, envVars, stagingExists, filelist, grpVars, statVars,
                   joinVars, endVars>>

\* ffmpeg exits: with status 0 the output file is complete
ToolExits(sizes) ==
    /\ proc.state = "running"
    /\ pc = "reading"
    /\ \/ /\ proc' = [proc EXCEPT !.state = "exited", !.rc = 0]
          /\ \E size \in sizes :
                staging' = WithFile(staging, OutputName(output_filename),
                                    [kind |-> "joined", size |-> size])
       \/ /\ proc' = [proc EXCEPT !.state = "exited", !.rc = 1]
          /\ UNCHANGED staging
    /\ UNCHANGED <<cmd, pc, envVars, stagingExists, filelist, grpVars, statVars, endVars,
                   input_list, output_filename, stderr_lines, last_output_size,
                   result, attempts>>

\* one turn of "for line in process.stderr"
NextOutputSize(last, line) ==
    LET parsed == parse_ffmpeg_progress(line)
    IN  IF ~parsed.none /\ parsed.output_bytes > 0 /\ parsed.output_bytes > last
        THEN parsed.output_bytes
        ELSE last

JoinReadLine ==
    /\ pc = "reading"
    /\ proc.pipe # <<>>
    /\ stderr_lines' = Append(stderr_lines, Head(proc.pipe))
    /\ last_output_size' = NextOutputSize(last_output_size, Head(proc.pipe))
    /\ proc' = [proc EXCEPT !.pipe = Tail(@)]
    /\ UNCHANGED <<cmd, pc, envVars, dirVars, grpVars, statVars, endVars,
                   input_list, output_filename, result, attempts>>

\* reading stderr raises (bytes that are no text): except Exception returns str(e)
JoinReadError ==
    /\ pc = "reading"
    /\ proc.pipe # <<>>
    /\ result' = ErrorResult(UnicodeDecodeError)
    /\ attempts' = Append(attempts, Attempt(UnicodeDecodeError.type, <<>>, -1, result'))
    /\ pc' = "joined"
    /\ UNCHANGED <<cmd, envVars, dirVars, grpVars, statVars, endVars,
                   input_list, output_filename, proc, stderr_lines, last_output_size>>

\* the result with the size of the last progress line in place of the size on
\* disk, and with the last line in place of all of them
RECURSIVE ParsedSize(_)
ParsedSize(lines) ==
    IF Len(lines) = 0 THEN 0
    ELSE NextOutputSize(ParsedSize(SubSeq(lines, 1, Len(lines) - 1)), lines[Len(lines)])

JoinResultFromProgress(returncode, lines, dir, name) ==
    IF returncode = 0
    THEN [success |-> TRUE, error_msg |-> <<>>, output_size |-> ParsedSize(lines)]
    ELSE [success |-> FALSE,
          error_msg |-> IF lines = <<>> THEN <<>> ELSE lines[Len(lines)],
          output_size |-> 0]

\* process.wait() and the return: stderr is at its end and ffmpeg has exited
JoinResult(returncode, lines, dir, name) ==
    IF returncode = 0
    THEN [success |-> TRUE, error_msg |-> <<>>,
          output_size |-> get_file_size(dir, OutputName(name))]
    ELSE [success |-> FALSE, error_msg |-> JoinText(lines), output_size |-> 0]

JoinReturn ==
    /\ pc = "reading"
    /\ proc.pipe = <<>>
    /\ proc.state = "exited"
    /\ result' = JoinResult(proc.rc, stderr_lines, staging, output_filename)
    /\ attempts' = Append(attempts, Attempt("ran", proc.script, proc.rc, result'))
    /\ pc' = "joined"
    /\ UNCHANGED <<cmd, envVars, dirVars, grpVars, statVars, endVars,
                   input_list, output_filename, proc, stderr_lines, last_output_size>>

\* KeyboardInterrupt while join_videofile reads or waits: it is no Exception, so
\* it leaves join_videofile; the primary command's handler prints a warning and
\* main() returns, the join command's handler calls sys.exit(1)
CancelStatus(command) == IF command = "primary" THEN ReturnStatus ELSE ErrorStatus

\* a handler that removes the unfinished output file before the command ends
InterruptThenCleanup ==
    /\ pc = "reading"
    /\ Finish("cancelled", CancelStatus(cmd))
    /\ staging' = WithoutFiles(staging, {OutputName(output_filename)})
    /\ UNCHANGED <<cmd, envVars, stagingExists, filelist, grpVars, statVars, joinVars>>

Interrupt ==
    /\ pc = "reading"
    /\ Finish("cancelled", CancelStatus(cmd))
    /\ UNCHANGED <<cmd, envVars, dirVars, grpVars, statVars, joinVars>>

(***************************************************************************)
(* The primary command: main() of main.py.                                 *)
(***************************************************************************)
ChunkFile == [kind |-> "chunk", size |-> 2048]
StaleFile == [kind |-> "stale", size |-> 2048]

\* the video files of a directory, as list_filenames keeps them
VideoFilesOf(names) == {f \in names : is_video_file(f)}

\* os.listdir gives the entries in an arbitrary order: a run of the model lists
\* a directory in ascending or in descending order of the names
RECURSIVE SomeListing(_)
SomeListing(S) ==
    IF S = {} THEN <<>>
    ELSE LET x == CHOOSE y \in S : TRUE IN <<x>> \o SomeListing(S \ {x})

list_filenames(names) ==
    LET ascending == SortNames(SomeListing(VideoFilesOf(names)))
    IN  {ascending, Reverse(ascending)}

\* validate_directory(media_dir): a missing source directory ends the run
ValidateSource ==
    /\ cmd = "primary"
    /\ pc = "start"
    /\ IF srcExists
       THEN pc' = "staging" /\ UNCHANGED endVars
       ELSE Finish("no_source", ReturnStatus)
    /\ UNCHANGED <<cmd, envVars, dirVars, grpVars, statVars, joinVars>>

\* validate_directory(processed_media_dir), os.makedirs and clear_processed_dir:
\* the staging directory is created when missing, then emptied (a failing
\* unlink, which only prints a warning, is not modelled)
PrepareStaging ==
    /\ cmd = "primary"
    /\ pc = "staging"
    /\ \/ /\ stagingExists' = TRUE
          /\ staging' = EmptyDir
          /\ filelist' = NoFile
          /\ pc' = "list"
          /\ UNCHANGED endVars
       \/ /\ ~stagingExists
          /\ Finish("mkdir_failed", ReturnStatus)
          /\ UNCHANGED dirVars
    /\ UNCHANGED <<cmd, envVars, grpVars, statVars, joinVars>>

\* list_filenames(media_dir): os.listdir gives the entries in any order; when
\* the directory cannot be listed the error is shown and raised again, and
\* leaves main() through "except Exception"
ListSource ==
    /\ cmd = "primary"
    /\ pc = "list"
    /\ \/ /\ srcListable
          /\ \E listing \in list_filenames(srcFiles) :
                video_filenames' = listing
          /\ IF video_filenames' = <<>>
             THEN Finish("empty", ReturnStatus)
             ELSE pc' = "copy" /\ UNCHANGED endVars
       \/ /\ ~srcListable
          /\ Finish("crashed", ErrorStatus)
          /\ UNCHANGED video_filenames
    /\ UNCHANGED <<cmd, envVars, dirVars, grouped_filenames, sorted_groups, skipped_count,
                   statVars, joinVars>>

\* copy_files_to_processed: the files are copied in order; the first copy that
\* fails ends the run and leaves the copies made so far
CopiedInto(dir, filenames, k) ==
    [n \in DOMAIN dir \cup {filenames[i] : i \in 1..k} |->
        IF \E i \in 1..k : filenames[i] = n THEN ChunkFile ELSE dir[n]]

CopyFiles ==
    /\ cmd = "primary"
    /\ pc = "copy"
    /\ \E k \in 0..Len(video_filenames) :
          /\ staging' = CopiedInto(staging, video_filenames, k)
          /\ IF k = Len(video_filenames)
             THEN pc' = "list_staging" /\ UNCHANGED endVars
             ELSE Finish("copy_failed", ReturnStatus)
    /\ UNCHANGED <<cmd, envVars, stagingExists, filelist, grpVars, statVars, joinVars>>

\* list_filenames(processed_media_dir)
ListStaging ==
    /\ cmd = "primary"
    /\ pc = "list_staging"
    /\ \/ /\ \E listing \in list_filenames(DOMAIN staging) :
                video_filenames' = listing
          /\ pc' = "group"
          /\ UNCHANGED endVars
       \/ /\ Finish("crashed", ErrorStatus)
          /\ UNCHANGED video_filenames
    /\ UNCHANGED <<cmd, envVars, dirVars, grouped_filenames, sorted_groups, skipped_count,
                   statVars, joinVars>>

\* group_related_videos and the lines up to the loop: no group ends the run,
\* otherwise the loop runs over the groups sorted by name
GroupVideos ==
    /\ cmd = "primary"
    /\ pc = "group"
    /\ LET returned == group_related_videos(video_filenames)
       IN  /\ grouped_filenames' = DictOf(returned.grouped)
           /\ skipped_count' = returned.skipped_count
           /\ sorted_groups' = SortedByName(returned.group_info_list)
           /\ IF returned.grouped = <<>>
              THEN Finish("no_groups", ReturnStatus)
              ELSE pc' = "write_list" /\ UNCHANGED endVars
    /\ idx' = 0
    /\ groups_processed' = 0
    /\ total_output_size' = 0
    /\ UNCHANGED <<cmd, envVars, dirVars, video_filenames, errors, joinVars>>

\* the head of one turn of the loop: create_input_parameter_file for the group,
\* then the call of join_videofile; an error writing the list leaves main()
WriteList ==
    /\ cmd = "primary"
    /\ pc = "write_list"
    /\ LET group_name  == sorted_groups[idx + 1].group_name
           chunk_files == grouped_filenames[group_name]
       IN  /\ input_list' = chunk_files
           /\ output_filename' = group_name
           /\ \/ /\ filelist' = create_input_parameter_file(filelist, chunk_files)
                 /\ pc' = "popen"
                 /\ UNCHANGED endVars
              \/ /\ filelist' \in {filelist, WriteFile(filelist, <<>>)}
                 /\ Finish("crashed", ErrorStatus)
    /\ proc' = NoProcess
    /\ stderr_lines' = <<>>
    /\ last_output_size' = 0
    /\ UNCHANGED <<cmd, envVars, stagingExists, staging, grpVars, statVars,
                   result, attempts>>

\* delete_input_files: os.remove of every chunk file; a file that is not there
\* only prints a warning
delete_input_files(dir, input_files) == WithoutFiles(dir, Range(input_files))

\* ("Join Failed", f"Could not join {group_name}", error_msg)
CouldNotJoin ==
    <<"C", "o", "u", "l", "d", " ", "n", "o", "t", " ", "j", "o", "i", "n", " ">>

\* the record without the text that join_videofile returned
ErrorRecordWithoutDetail(group_name, error_msg) ==
    [kind |-> "Join Failed", message |-> CouldNotJoin \o group_name, detail |-> <<>>]

ErrorRecord(group_name, error_msg) ==
    [kind |-> "Join Failed", message |-> CouldNotJoin \o group_name, detail |-> error_msg]

\* the chunks deleted whatever join_videofile returned
GroupSucceededAlways(res) == TRUE

\* the loop left at the first failed join
NextPositionBreaking(res, next, total) ==
    IF res.success /\ next < total THEN "write_list" ELSE "summary"

\* after a turn: the next group, or the summary after the last one
NextPosition(res, next, total) == IF next < total THEN "write_list" ELSE "summary"

\* the rest of the turn: on success the chunks are deleted and the counters
\* raised, on failure the error is recorded; then the next group, or the end
\* of the loop
GroupSucceeded(res) == res.success

HandleResult ==
    /\ cmd = "primary"
    /\ pc = "joined"
    /\ IF GroupSucceeded(result)
       THEN /\ staging' = delete_input_files(staging, input_list)
            /\ groups_processed' = groups_processed + 1
            /\ total_output_size' = total_output_size + result.output_size
            /\ UNCHANGED errors
       ELSE /\ errors' = Append(errors, ErrorRecord(output_filename, result.error_msg))
            /\ UNCHANGED <<staging, groups_processed, total_output_size>>
    /\ idx' = idx + 1
    /\ pc' = NextPosition(result, idx + 1, Len(sorted_groups))
    /\ UNCHANGED <<cmd, envVars, stagingExists, filelist, grpVars, joinVars, endVars>>

\* ProcessingStats and display_final_summary, then main() returns
Summary ==
    /\ cmd = "primary"
    /\ pc = "summary"
    /\ Finish("summary", ReturnStatus)
    /\ UNCHANGED <<cmd, envVars, dirVars, grpVars, statVars, joinVars>>

(***************************************************************************)
(* A run of the primary command.                                           *)
(***************************************************************************)
SubsetsUpTo(S, n) == {T \in SUBSET S : Cardinality(T) <= n}

\* lines an earlier run left in filelist.txt
OldLines == <<FormatLine(NameChunkB1)>>

InitLocals ==
    /\ grouped_filenames = <<>>
    /\ sorted_groups = <<>>
    /\ skipped_count = 0
    /\ idx = 0
    /\ groups_processed = 0
    /\ total_output_size = 0
    /\ errors = <<>>
    /\ input_list = <<>>
    /\ output_filename = <<>>
    /\ proc = NoProcess
    /\ stderr_lines = <<>>
    /\ last_output_size = 0
    /\ result = NoResult
    /\ attempts = <<>>
    /\ outcome = ""
    /\ exit_status = -1

\* ./processed before the command runs: missing, empty, or holding what an
\* earlier run with a failed join left in it (a chunk and the list of that run)
InitStaging ==
    /\ stagingExists \in BOOLEAN
    /\ staging \in IF stagingExists
                   THEN {EmptyDir, WithFile(EmptyDir, NameChunkA1, StaleFile)}
                   ELSE {EmptyDir}
    /\ filelist = IF staging # EmptyDir THEN WriteFile(NoFile, OldLines) ELSE NoFile

Init ==
    /\ cmd = "primary"
    /\ pc = "start"
    /\ argv = <<>>
    /\ cwdFiles = {}
    /\ srcExists \in BOOLEAN
    /\ srcListable \in IF srcExists THEN BOOLEAN ELSE {FALSE}
    /\ srcFiles \in IF srcListable THEN SubsetsUpTo(EntryNames, MaxRunFiles) ELSE {{}}
    /\ toolInstalled \in BOOLEAN
    /\ InitStaging
    /\ video_filenames = <<>>
    /\ InitLocals

Next ==
    \/ ValidateSource
    \/ PrepareStaging
    \/ ListSource
    \/ CopyFiles
    \/ ListStaging
    \/ GroupVideos
    \/ WriteList
    \/ JoinToolMissing
    \/ JoinPopenError
    \/ JoinPopen(RunScripts)
    \/ ToolWrites
    \/ ToolExits(RunDiskSizes)
    \/ JoinReadLine
    \/ JoinReturn
    \/ Interrupt
    \/ HandleResult
    \/ Summary

Spec == Init /\ [][Next]_vars

(***************************************************************************)
(* The Grouper on its own: the primary command at the call of              *)
(* group_related_videos, with any listing of at most MaxFiles distinct     *)
(* video filenames in the staging directory.                               *)
(***************************************************************************)
InitGrouper ==
    /\ cmd = "primary"
    /\ pc = "group"
    /\ argv = <<>>
    /\ cwdFiles = {}
    /\ srcExists = TRUE
    /\ srcListable = TRUE
    /\ toolInstalled = TRUE
    /\ stagingExists = TRUE
    /\ filelist = NoFile
    /\ InitLocals
    /\ \E listing \in DistinctSeqs(VideoNames, MaxFiles) :
          /\ video_filenames = listing
          /\ srcFiles = Range(listing)
          /\ staging = CopiedInto(EmptyDir, listing, Len(listing))

NextGrouper == GroupVideos

SpecGrouper == InitGrouper /\ [][NextGrouper]_vars

(***************************************************************************)
(* The join command: main() of join.py.                                    *)
(***************************************************************************)
\* the output base name and the paths the command line can name
BaseName == <<"o", "u", "t">>
InputPaths == {NameChunkA1, NameChunkA2, NameLower}

\* "if len(sys.argv) < 3": fewer than two arguments show the help and exit 1
JoinParseArgs ==
    /\ cmd = "join"
    /\ pc = "start"
    /\ IF Len(argv) < 2
       THEN Finish("usage", ErrorStatus)
       ELSE pc' = "validate" /\ UNCHANGED endVars
    /\ UNCHANGED <<cmd, envVars, dirVars, grpVars, statVars, joinVars>>

\* validate_input_files(input_files): every named file must exist
validate_input_files(filenames) == \A i \in 1..Len(filenames) : filenames[i] \in cwdFiles

JoinValidate ==
    /\ cmd = "join"
    /\ pc = "validate"
    /\ IF validate_input_files(Tail(argv))
       THEN pc' = "makedirs" /\ UNCHANGED endVars
       ELSE Finish("invalid", ErrorStatus)
    /\ UNCHANGED <<cmd, envVars, dirVars, grpVars, statVars, joinVars>>

\* os.makedirs(processed_dir, exist_ok=True)
JoinMakeDirs ==
    /\ cmd = "join"
    /\ pc = "makedirs"
    /\ \/ /\ stagingExists' = TRUE
          /\ pc' = "write_list"
          /\ UNCHANGED endVars
       \/ /\ ~stagingExists
          /\ Finish("mkdir_failed", ErrorStatus)
          /\ UNCHANGED stagingExists
    /\ UNCHANGED <<cmd, envVars, staging, filelist, grpVars, statVars, joinVars>>

\* create_input_parameter_file(processed_dir, input_files), then the call of
\* join_videofile; the list is written outside the try block, so an error
\* writing it ends the command with a traceback
JoinWriteList ==
    /\ cmd = "join"
    /\ pc = "write_list"
    /\ input_list' = Tail(argv)
    /\ output_filename' = Head(argv)
    /\ \/ /\ filelist' = create_input_parameter_file(filelist, Tail(argv))
          /\ pc' = "popen"
          /\ UNCHANGED endVars
       \/ /\ filelist' \in {filelist, WriteFile(filelist, <<>>)}
          /\ Finish("crashed", ErrorStatus)
    /\ UNCHANGED <<cmd, envVars, stagingExists, staging, grpVars, statVars,
                   proc, stderr_lines, last_output_size, result, attempts>>

\* sys.exit(0) after a successful join, sys.exit(1) after a failed one
JoinHandleResult ==
    /\ cmd = "join"
    /\ pc = "joined"
    /\ IF result.success
       THEN Finish("joined", ReturnStatus)
       ELSE Finish("join_failed", ErrorStatus)
    /\ UNCHANGED <<cmd, envVars, dirVars, grpVars, statVars, joinVars>>

InitJoin ==
    /\ cmd = "join"
    /\ pc = "start"
    /\ argv \in {<<>>} \cup {<<BaseName>> \o files : files \in SeqsUpTo(InputPaths, MaxArgs)}
    /\ cwdFiles \in {InputPaths, InputPaths \ {NameLower}}
    /\ srcExists = TRUE
    /\ srcListable = TRUE
    /\ srcFiles = {}
    /\ toolInstalled \in BOOLEAN
    /\ InitStaging
    /\ video_filenames = <<>>
    /\ InitLocals

NextJoin ==
    \/ JoinParseArgs
    \/ JoinValidate
    \/ JoinMakeDirs
    \/ JoinWriteList
    \/ JoinToolMissing
    \/ JoinPopenError
    \/ JoinPopen(JoinScripts)
    \/ ToolWrites
    \/ ToolExits(JoinDiskSizes)
    \/ JoinReadLine
    \/ JoinReadError
    \/ JoinReturn
    \/ Interrupt
    \/ JoinHandleResult

SpecJoin == InitJoin /\ [][NextJoin]_vars

(***************************************************************************)
(* Properties of the Grouper (SpecGrouper).                                *)
(***************************************************************************)
\* group_related_videos has returned
Grouped == pc # "group"

GroupKeys == DOMAIN grouped_filenames

RECURSIVE MemberCount(_)
MemberCount(keys) ==
    IF keys = {} THEN 0
    ELSE LET k == CHOOSE x \in keys : TRUE
         IN  Len(grouped_filenames[k]) + MemberCount(keys \ {k})

\* key is the first 8 characters of name (all of name when it is shorter)
IsFirstEight(key, name) ==
    /\ Len(key) = (IF Len(name) < 8 THEN Len(name) ELSE 8)
    /\ \A j \in 1..Len(key) : key[j] = name[j]

\* C1: every member of every group starts with the 8 characters of its group's
\* key, no filename is in two places of the mapping, every member is an input
\* filename, and the members and the skipped count add up to the input count.
C1_GroupsPartitionInput ==
    Grouped =>
        /\ \A k \in GroupKeys : \A i \in 1..Len(grouped_filenames[k]) :
              /\ IsFirstEight(k, grouped_filenames[k][i])
              /\ grouped_filenames[k][i] \in Range(video_filenames)
        /\ \A k1 \in GroupKeys, k2 \in GroupKeys :
              \A i \in 1..Len(grouped_filenames[k1]), j \in 1..Len(grouped_filenames[k2]) :
                 grouped_filenames[k1][i] = grouped_filenames[k2][j] => k1 = k2 /\ i = j
        /\ MemberCount(GroupKeys) + skipped_count = Len(video_filenames)

\* a listing of three files: a group of two chunks and a skipped file
C1_Witness ==
    /\ Grouped
    /\ Len(video_filenames) = 3
    /\ skipped_count = 1
    /\ \E k \in GroupKeys : Len(grouped_filenames[k]) = 2

\* filename is DJI_ + four digits + .MP4
IsUnchunkedName(filename) ==
    /\ Len(filename) = 12
    /\ <<filename[1], filename[2], filename[3], filename[4]>> = <<"D", "J", "I", "_">>
    /\ \A i \in 5..8 : filename[i] \in {"0", "1", "2", "3", "4", "5", "6", "7", "8", "9"}
    /\ <<filename[9], filename[10], filename[11], filename[12]>> = <<".", "M", "P", "4">>

InSomeGroup(filename) ==
    \E k \in GroupKeys : filename \in Range(grouped_filenames[k])

\* C2: a filename of the listing is in no group exactly when it is DJI_ + four
\* digits + .MP4, and the skipped count is the number of those filenames.
C2_SkipsExactlyUnchunked ==
    Grouped =>
        /\ \A i \in 1..Len(video_filenames) :
              IsUnchunkedName(video_filenames[i]) <=> ~InSomeGroup(video_filenames[i])
        /\ skipped_count =
              Cardinality({i \in 1..Len(video_filenames) :
                              IsUnchunkedName(video_filenames[i])})

\* two unchunked files are skipped beside a chunk with five digits, which is grouped
C2_Witness ==
    /\ Grouped
    /\ skipped_count = 2
    /\ InSomeGroup(NameChunkA1)
    /\ NameUnchunked1 \in Range(video_filenames)

\* C3: the members of every group are in strictly ascending order of their
\* code points, and every other order of the same listing gives the same
\* mapping from group name to member sequence.
C3_SortedAndOrderIndependent ==
    Grouped =>
        /\ \A k \in GroupKeys : \A i \in 1..(Len(grouped_filenames[k]) - 1) :
              StrLess(grouped_filenames[k][i], grouped_filenames[k][i + 1])
        /\ \A other \in Listings(Range(video_filenames)) :
              DictOf(group_related_videos(other).grouped) = grouped_filenames

\* a listing that names the second chunk before the first
C3_Witness ==
    /\ Grouped
    /\ video_filenames = <<NameChunkA2, NameLower, NameChunkA1>>
    /\ grouped_filenames[GroupNameOf(NameChunkA1)] = <<NameChunkA1, NameChunkA2>>

(***************************************************************************)
(* Properties of the list file and of join_videofile (SpecJoin).           *)
(***************************************************************************)
\* create_input_parameter_file has returned and join_videofile is running or
\* has returned
ListWritten == pc \in {"popen", "reading", "joined"}

\* line is the word file, a space, the name in single quotes and a newline
IsListLine(line, name) ==
    /\ Len(line) = Len(name) + 8
    /\ <<line[1], line[2], line[3], line[4], line[5], line[6]>> =
          <<"f", "i", "l", "e", " ", "'">>
    /\ \A j \in 1..Len(name) : line[6 + j] = name[j]
    /\ line[Len(name) + 7] = "'"
    /\ line[Len(name) + 8] = "\n"

\* C4: after create_input_parameter_file, filelist.txt holds one line per
\* filename, in the order of the input, each line being file '<name>' and a
\* newline, and nothing else (nothing of what the file held before).
C4_ListFileIsTheInput ==
    ListWritten =>
        /\ input_list # <<>>
        /\ filelist.exists
        /\ Len(filelist.lines) = Len(input_list)
        /\ \A i \in 1..Len(input_list) : IsListLine(filelist.lines[i], input_list[i])

\* the list of two names given in descending order, written into a directory
\* that held the list of an earlier run
C4_Witness ==
    /\ cmd = "join"
    /\ pc = "popen"
    /\ input_list = <<NameChunkA2, NameChunkA1>>
    /\ NameChunkA1 \in DOMAIN staging
    /\ staging[NameChunkA1].kind = "stale"

\* the last call of join_videofile, which has returned
LastAttempt == attempts[Len(attempts)]

\* the size of the output file on disk (0 when there is none)
OutputSizeOnDisk ==
    IF OutputName(output_filename) \in DOMAIN staging
    THEN staging[OutputName(output_filename)].size
    ELSE 0

\* C9: join_videofile returns a result whatever happens, a cancellation apart:
\* after exit status 0, success with no error text and the size of the output
\* file on disk; after another exit status, failure with all the lines ffmpeg
\* wrote, in order, and size 0; after an exception, failure with its text.  The
\* command ends otherwise only before the call or by a cancellation.
C9_JoinAlwaysReturnsAResult ==
    /\ pc = "joined" =>
          /\ attempts # <<>>
          /\ result = LastAttempt.result
          /\ LastAttempt.tool = "ran" /\ LastAttempt.rc = 0 =>
                /\ result.success
                /\ result.error_msg = <<>>
                /\ result.output_size = OutputSizeOnDisk
          /\ LastAttempt.tool = "ran" /\ LastAttempt.rc # 0 =>
                /\ ~result.success
                /\ result.error_msg = JoinText(LastAttempt.script)
                /\ result.output_size = 0
          /\ LastAttempt.tool = "PermissionError" =>
                /\ ~result.success
                /\ result.error_msg = PermissionError.text
                /\ result.output_size = 0
          /\ LastAttempt.tool = "UnicodeDecodeError" =>
                /\ ~result.success
                /\ result.error_msg = UnicodeDecodeError.text
                /\ result.output_size = 0
    /\ pc = "done" /\ proc.state # "none" =>
          \/ outcome = "cancelled"
          \/ attempts # <<>> /\ outcome \in {"joined", "join_failed", "summary"}

\* ffmpeg exited with status 0 after a progress line that gave another size than
\* the file has on disk
C9_Witness ==
    /\ pc = "joined"
    /\ LastAttempt.tool = "ran"
    /\ LastAttempt.rc = 0
    /\ last_output_size > 0
    /\ result.output_size # last_output_size
    /\ result.output_size > 0

(***************************************************************************)
(* Properties of a run of the primary command (Spec).                      *)
(***************************************************************************)
\* the number of group names below k
KeysBelow(k) == Cardinality({other \in GroupKeys : StrLess(other, k)})

Succeeded == {i \in 1..Len(attempts) : attempts[i].result.success}
Failed == {i \in 1..Len(attempts) : ~attempts[i].result.success}

\* the run went through its whole loop and showed the summary
Completed == pc = "done" /\ outcome = "summary"

C6_ChunksDeletedOnlyAfterSuccess ==
    \A k \in GroupKeys : \A i \in 1..Len(grouped_filenames[k]) :
        grouped_filenames[k][i] \notin DOMAIN staging =>
            \E a \in Succeeded : attempts[a].group = k

\* a completed run with a failed group of two chunks, both still there, and a
\* joined group whose chunk is gone
C6_Witness ==
    /\ Completed
    /\ \E a \in Failed :
          /\ attempts[a].group = GroupNameOf(NameChunkA1)
          /\ {NameChunkA1, NameChunkA2} \subseteq DOMAIN staging
    /\ \E a \in Succeeded :
          /\ attempts[a].group = GroupNameOf(NameChunkB1)
          /\ NameChunkB1 \notin DOMAIN staging

\* the failed attempts in their order
RECURSIVE FailedUpTo(_)
FailedUpTo(n) ==
    IF n = 0 THEN <<>>
    ELSE IF attempts[n].result.success THEN FailedUpTo(n - 1)
    ELSE Append(FailedUpTo(n - 1), attempts[n])

\* C7: at the summary the succeeded counter is the number of joins that
\* returned success, there is one error record per failed join, in order, so
\* that the two add up to the number of groups, and the record's detail is the
\* error text join_videofile returned for that group: after a non-zero exit,
\* the lines ffmpeg wrote.
C7_SummaryCountsAndErrors ==
    Completed =>
        LET failed == FailedUpTo(Len(attempts))
        IN  /\ groups_processed = Cardinality(Succeeded)
            /\ Len(errors) = Len(failed)
            /\ groups_processed + Len(errors) = Cardinality(GroupKeys)
            /\ \A j \in 1..Len(errors) :
                  /\ errors[j].detail = failed[j].result.error_msg
                  /\ SubSeq(errors[j].message, Len(errors[j].message) - Len(failed[j].group) + 1,
                            Len(errors[j].message)) = failed[j].group
                  /\ failed[j].tool = "ran" => errors[j].detail = JoinText(failed[j].script)

\* three groups, the second failed with a non-zero exit: 2 succeeded, 1 error
\* record holding ffmpeg's lines
C7_Witness ==
    /\ Completed
    /\ Cardinality(GroupKeys) = 3
    /\ groups_processed = 2
    /\ Len(errors) = 1
    /\ attempts[2].tool = "ran" /\ attempts[2].rc # 0
    /\ errors[1].detail = LineBoth \o LineSize

\* the files that a run of ffmpeg made
OutputFiles == {n \in DOMAIN staging : staging[n].kind \in {"partial", "joined"}}

\* C8: without an ffmpeg binary every join returns failure with the text
\* "FFmpeg not found. Please install FFmpeg." (no other error has that text) and
\* size 0, no output file is made, no chunk is deleted and the succeeded
\* counter stays 0.
C8_ToolMissingFailsEveryJoin ==
    /\ NotFoundText \notin {str(PermissionError), str(UnicodeDecodeError)}
                           \cup {JoinText(s) : s \in RunScripts}
    /\ ~toolInstalled =>
          /\ \A i \in 1..Len(attempts) :
                /\ ~attempts[i].result.success
                /\ attempts[i].result.error_msg = NotFoundText
                /\ attempts[i].result.output_size = 0
          /\ OutputFiles = {}
          /\ \A k \in GroupKeys : Range(grouped_filenames[k]) \subseteq DOMAIN staging
          /\ groups_processed = 0
          /\ Completed => Len(errors) = Cardinality(GroupKeys)

\* a completed run without ffmpeg: three groups, three failed joins
C8_Witness ==
    /\ ~toolInstalled
    /\ Completed
    /\ Len(attempts) = 3
    /\ errors[3].detail = NotFoundText

\* C10 as the spec states it: the primary command ends with status 1 when the
\* validation failed, when there was nothing to process, when a join failed
\* and when the run was cancelled, and with status 0 only after full success.
C10_ExitStatusTellsFailure ==
    pc = "done" =>
        /\ outcome \in {"no_source", "mkdir_failed", "usage", "invalid", "empty",
                        "cancelled", "join_failed"} => exit_status = 1
        /\ outcome = "summary" /\ errors # <<>> => exit_status = 1
        /\ exit_status = 0 => outcome \in {"summary", "joined", "no_groups"}

(***************************************************************************)
(* Cancellation.                                                           *)
(***************************************************************************)
\* the command was cancelled
Cancelled == outcome = "cancelled"

\* C11: a cancellation during the join of a group ends the run at once: the
\* step that cancels leaves the staging directory (the chunks of the group and
\* the unfinished output file), the list file, the counters and the error list
\* as they were, nothing happens after it, the groups attempted are those
\* before the interrupted one, whose chunks are all there, and the run has
\* ended without a result for the interrupted join, without the summary and
\* without an error record for the group.
C11_CancellationAbortsTheRun ==
    /\ [](Cancelled =>
            /\ pc = "done"
            /\ proc.state # "none"
            /\ Len(attempts) = idx
            /\ groups_processed + Len(errors) = idx
            /\ \A i \in 1..Len(attempts) : attempts[i].group # output_filename
            /\ cmd = "primary" =>
                  /\ idx < Len(sorted_groups)
                  /\ output_filename = sorted_groups[idx + 1].group_name
                  /\ input_list = grouped_filenames[output_filename]
                  /\ Range(input_list) \subseteq DOMAIN staging
            /\ cmd = "join" => Range(input_list) \subseteq cwdFiles)
    /\ [][~Cancelled /\ Cancelled' =>
            /\ pc = "reading"
            /\ UNCHANGED <<envVars, dirVars, grpVars, statVars, joinVars>>]_vars
    /\ [][Cancelled => UNCHANGED vars]_vars

\* the join of the second of three groups is cancelled after ffmpeg began to
\* write the output file: the file is there, unfinished, beside the chunks
C11_Witness ==
    /\ Cancelled
    /\ cmd = "primary"
    /\ idx = 1
    /\ Len(sorted_groups) = 3
    /\ OutputName(output_filename) \in DOMAIN staging
    /\ staging[OutputName(output_filename)].kind = "partial"
    /\ Range(input_list) \subseteq DOMAIN staging

(***************************************************************************)
(* The arguments of the join command (SpecJoin).                           *)
(***************************************************************************)
\* filelist.txt as it was before the command ran
ListUntouched == filelist \in {NoFile, WriteFile(NoFile, OldLines)}

\* C12 as the spec states it: the join command given the base name and fewer
\* than 2 input files goes no further than its usage message: it writes no
\* list, starts no ffmpeg and ends with status 1.
C12_FewerThanTwoFilesRefused ==
    cmd = "join" /\ Len(argv) >= 1 /\ Len(argv) - 1 < 2 =>
        /\ pc \in {"start", "done"}
        /\ ListUntouched
        /\ proc.state = "none"
        /\ attempts = <<>>
        /\ pc = "done" => outcome = "usage" /\ exit_status = 1

(***************************************************************************)
(* Letter case in the Grouper (SpecGrouper).                               *)
(***************************************************************************)
\* filename is an unchunked name but for the case of its letters
IsUnchunkedNameAnyCase(filename) ==
    /\ Len(filename) = 12
    /\ IsUnchunkedName([i \in 1..12 |-> UpperChar(filename[i])])

\* C13 as the spec states it: a filename that is DJI_ + four digits + .MP4 in
\* any letter case is in no group, and the skipped count counts every such
\* filename of the listing.
C13_UnchunkedInAnyCaseSkipped ==
    Grouped =>
        /\ \A i \in 1..Len(video_filenames) :
              IsUnchunkedNameAnyCase(video_filenames[i]) => ~InSomeGroup(video_filenames[i])
        /\ skipped_count =
              Cardinality({i \in 1..Len(video_filenames) :
                              IsUnchunkedNameAnyCase(video_filenames[i])})

(***************************************************************************)
(* The progress signals of the lines read from ffmpeg (SpecJoin).          *)
(***************************************************************************)
\* the line holds size=<digits>kB, and the bytes that stands for
HasSize(line) == FirstSizeMatch(line) # 0

SizeBytes(line) ==
    LET s == FirstSizeMatch(line)
    IN  IntOf(SubSeq(line, s + 5, DigitsEnd(line, s + 5))) * 1024

\* the line holds time=HH:MM:SS.ff, and the whole seconds that stands for
HasTime(line) == FirstTimeMatch(line) # 0

TimeSeconds(line) ==
    LET t == FirstTimeMatch(line)
    IN  IntOf(SubSeq(line, t + 5, t + 6)) * 3600
        + IntOf(SubSeq(line, t + 8, t + 9)) * 60
        + IntOf(SubSeq(line, t + 11, t + 12))

\* the lines join_videofile has read from the pipe so far
LinesRead == SubSeq(proc.script, 1, Len(proc.script) - Len(proc.pipe))

\* C14 as the spec states it: of every line read, a size= field gives the size
\* signal (digits * 1024) with or without a time= field, a time= field gives
\* the time signal (whole seconds) with or without a size= field, only a line
\* with neither gives no signal, and every line read is kept, in order.
C14_SignalsExtractedIndependently ==
    pc = "reading" =>
        /\ stderr_lines = LinesRead
        /\ \A i \in 1..Len(stderr_lines) :
              LET line   == stderr_lines[i]
                  parsed == parse_ffmpeg_progress(line)
              IN  /\ HasSize(line) =>
                        ~parsed.none /\ parsed.output_bytes = SizeBytes(line)
                  /\ HasTime(line) =>
                        ~parsed.none /\ parsed.current_seconds = TimeSeconds(line)
                  /\ ~HasSize(line) /\ ~HasTime(line) => parsed.none

(***************************************************************************)
(* Validation errors and the staging directory.                            *)
(***************************************************************************)
\* the primary command's source directory is missing or cannot be listed
SourceUnusable == cmd = "primary" /\ (~srcExists \/ ~srcListable)

\* a file named on the join command's line does not exist
InputMissing == cmd = "join" /\ \E i \in 2..Len(argv) : argv[i] \notin cwdFiles

\* C15 as the spec states it: in a run of the primary command whose source
\* directory is missing or cannot be listed, and in a run of the join command
\* that names a missing file, no step creates ./processed, changes the files in
\* it or its list, or starts ffmpeg.
C15_ValidationFailsWithoutSideEffect ==
    [][SourceUnusable \/ InputMissing => UNCHANGED <<dirVars, proc, attempts>>]_vars

(***************************************************************************)
(* The list file at the invocation of ffmpeg (Spec).                       *)
(***************************************************************************)
\* join_videofile is at its call of ffmpeg, or ffmpeg runs
ToolInvoked == pc \in {"popen", "reading"}

\* the group whose turn of the loop is running
CurrentGroup == sorted_groups[idx + 1].group_name

\* C16: when ffmpeg is invoked for a group of the primary command, and while
\* it runs, filelist.txt holds one line file '<name>' per member of that
\* group, in the ascending order of the members, and no line that names a
\* member of another group.
C16_ListIsTheGroupAtInvocation ==
    cmd = "primary" /\ ToolInvoked =>
        LET members == grouped_filenames[CurrentGroup]
        IN  /\ output_filename = CurrentGroup
            /\ filelist.exists
            /\ Len(filelist.lines) = Len(members)
            /\ \A i \in 1..Len(members) : IsListLine(filelist.lines[i], members[i])
            /\ \A i \in 1..(Len(members) - 1) : StrLess(members[i], members[i + 1])
            /\ \A k \in GroupKeys \ {CurrentGroup} :
                  \A j \in 1..Len(grouped_filenames[k]), i \in 1..Len(filelist.lines) :
                     ~IsListLine(filelist.lines[i], grouped_filenames[k][j])

\* ffmpeg runs for the second group, of one chunk, after the join of a first
\* group of two chunks, whose list had two lines
C16_Witness ==
    /\ cmd = "primary"
    /\ pc = "reading"
    /\ proc.state = "running"
    /\ idx = 1
    /\ Len(attempts) = 1
    /\ Len(grouped_filenames[attempts[1].group]) = 2
    /\ Len(filelist.lines) = 1

(***************************************************************************)
(* Output files and chunk files (Spec).                                    *)
(***************************************************************************)
\* the chunk filenames of all the groups
AllChunks == UNION {Range(grouped_filenames[k]) : k \in GroupKeys}

\* every group was attempted and every join returned success
AllJoined ==
    /\ Completed
    /\ GroupKeys # {}
    /\ \A i \in 1..Len(attempts) : attempts[i].result.success

\* C17 as claimed: the output filename <group name>.MP4 of a group is no chunk
\* filename of any group, and after a run in which every join succeeded the
\* staging directory holds the finished output file of every group.
C17_OutputsApartFromChunks ==
    /\ \A k \in GroupKeys : OutputName(k) \notin AllChunks
    /\ AllJoined =>
          \A k \in GroupKeys :
              /\ OutputName(k) \in DOMAIN staging
              /\ staging[OutputName(k)].kind = "joined"

====
